---- MODULE Spec2Model ----
(***************************************************************************)
(* Model of the MCP-ish diagnostics server of src/src/mcp_server.py: the   *)
(* tool registry, the shared RPC processor _process_rpc_req, and the three *)
(* transport adapters (duplex /mcp, unary /mcp-http, stream /mcp-sse).     *)
(*                                                                         *)
(* Python values are modelled as follows.  A parsed JSON request is a      *)
(* record of tokens: `shape` is the Python type of the parsed value        *)
(* ("dict" for a JSON object); each of the other fields holds the str() of *)
(* the value found under that key, or ABSENT when the key is missing;      *)
(* `params` holds the Python type of req["params"]; nameT the Python type  *)
(* of params["name"]; args/argT/argN describe params["arguments"] and the  *)
(* integer-valued key the tool lambdas convert with int().                 *)
(* Response envelopes are records whose DOMAIN is the set of keys of the   *)
(* Python dict, so the presence of a key is observable.                    *)
(***************************************************************************)
EXTENDS Naturals, Integers, Sequences, FiniteSets, TLC

VARIABLES
    TOOLS,      \* the registry's key list, in registration order
    probe,      \* one direct call of _process_rpc_req: input and outcome
    conns,      \* duplex connections: state of each mcp_socket task
    http,       \* the last exchange on a one-shot HTTP endpoint
    subs,       \* _SSE_SUBSCRIBERS: the set of registered queues
    queues,     \* contents of each subscriber's asyncio.Queue
    clients,    \* stream clients: state of each event_stream
    loop,       \* the event loop: the handler that is inside a tool call, if any
    badJson,    \* history kept by SpecDuplex: connections sent the invalid-json reply
    mw,         \* one request passing through LoggingMiddleware.dispatch
    hist        \* history kept by SpecDelivery: publishes, registrations, deliveries

vars == <<TOOLS, probe, conns, http, subs, queues, clients, loop, badJson, mw, hist>>

----------------------------------------------------------------------------
(* Bounds of the model *)

MaxConns == 1       \* duplex connections beside the other transports
MaxDuplex == 2      \* duplex connections of the duplex transport on its own
MaxSubs == 1        \* stream clients beside the other transports
MaxFanOut == 2      \* stream clients of the stream transport on its own
MaxQueue == 1       \* events held in one subscriber queue
MaxInFlight == 1    \* requests in handling or answered and not yet written, all transports
MaxLimit == 2       \* largest integer sent as depth / limit
MaxProcs == 3       \* processes running on the host
MaxHeaders == 2     \* header lines of the request seen by the middleware
MaxPubs == 2        \* publishes whose delivery is recorded

----------------------------------------------------------------------------
(* Python values *)

None == "None"          \* str(None); also what dict.get returns for a missing key
ABSENT == "ABSENT"      \* the key is not in the dict

\* the registry with the exec tool of line 39 left enabled
RegisteredToolsWithExec ==
    <<"fs.du", "fs.bigfiles", "pkg.caches", "docker.df", "proc.top", "exec.run">>

\* mcp_server.py:26-40, the registry as built at import time
RegisteredTools == <<"fs.du", "fs.bigfiles", "pkg.caches", "docker.df", "proc.top">>

SeqToSet(s) == { s[i] : i \in 1..Len(s) }

\* list(TOOLS.keys())
ToolKeys(tools) == tools

\* dict.get(key): None when the key is missing
Get(v) == IF v = ABSENT THEN None ELSE v

----------------------------------------------------------------------------
(* Tools: mcp_server.py:26-40 and src/tools/*.py.  host is the outcome of  *)
(* the host utilities the tool shells out to: "ok" or "fail" (utility      *)
(* missing, subprocess failing).                                           *)

Returned(v) == [raised |-> FALSE, val |-> v]
Raised(msg) == [raised |-> TRUE, val |-> msg]

\* the arguments value handed to the tool: `.get("arguments", {}) or {}`
EffArgs(req) ==
    IF req.args \in {ABSENT, None, "falsy"}
    THEN [args |-> "dict", argT |-> ABSENT, argN |-> 0]
    ELSE [args |-> req.args, argT |-> req.argT, argN |-> req.argN]

\* int(params.get(key) or default)
IntOr(a, default) ==
    CASE a.argT \in {ABSENT, None} -> Returned(default)
      [] a.argT = "int" -> Returned(IF a.argN = 0 THEN default ELSE a.argN)
      [] OTHER -> Raised("invalid literal for int() with base 10: 'abc'")

NoGet == "'int' object has no attribute 'get'"
HostFailure(util) == "[Errno 2] No such file or directory: '" \o util \o "'"

IntStr(n) == CASE n = 0 -> "0" [] n = 1 -> "1" [] n = 2 -> "2" [] n = 3 -> "3"
               [] n = 25 -> "25" [] n = 200 -> "200" [] OTHER -> "n"

du_k(depth, host) ==
    IF host = "fail" THEN Raised(HostFailure("du"))
    ELSE Returned("du_rows(depth=" \o IntStr(depth) \o ")")

bigfiles(limit, host) ==
    IF host = "fail" THEN Raised(HostFailure("bash"))
    ELSE Returned("bigfiles(limit=" \o IntStr(limit) \o ")")

pkg_caches(host) ==
    IF host = "fail" THEN Raised(HostFailure("bash"))
    ELSE Returned("pkg_caches")

\* docker_tools.py:8-12 swallows every failure of the shell command
docker_df(host) ==
    IF host = "fail" THEN Returned("docker_raw_empty") ELSE Returned("docker_raw")

top_procs(limit, host) ==
    IF host = "fail" THEN Raised("psutil failure")
    ELSE Returned("procs[:" \o IntStr(limit) \o "]")

\* exec_tool.py:4-6 with the command run and its output returned
exec_run_enabled(params) == Returned("exec output")

\* exec_tool.py:4-6: the stub raises whatever it is given
exec_run(params) == Raised("exec.run is disabled")

\* proc_tools.py:32, len(procs[:limit]) for a list of n records and limit >= 0
SliceLen(n, limit) == IF limit < n THEN limit ELSE n

\* the number of records in the list top_procs returned, proc_tools.py:17-32
Records(v) ==
    LET limit == CHOOSE l \in (0..MaxLimit) \cup {25} : v = "procs[:" \o IntStr(l) \o "]"
    IN  SliceLen(MaxProcs, limit)

\* TOOLS[name](params)
ToolCall(name, a, host) ==
    CASE name = "fs.du" ->
            IF a.args # "dict" THEN Raised(NoGet)
            ELSE LET d == IntOr(a, 2) IN
                 IF d.raised THEN d ELSE du_k(d.val, host)
      [] name = "fs.bigfiles" ->
            IF a.args # "dict" THEN Raised(NoGet)
            ELSE LET l == IntOr(a, 200) IN
                 IF l.raised THEN l ELSE bigfiles(l.val, host)
      [] name = "pkg.caches" -> pkg_caches(host)
      [] name = "docker.df" -> docker_df(host)
      [] name = "proc.top" ->
            IF a.args # "dict" THEN Raised(NoGet)
            ELSE LET l == IntOr(a, 25) IN
                 IF l.raised THEN l ELSE top_procs(l.val, host)
      [] OTHER -> Raised("KeyError")

----------------------------------------------------------------------------
(* Response envelopes *)

PyNone == [py |-> None]                 \* a result of None
Capabilities == [capabilities |-> "{}"]

\* a success envelope whose null result is left out
OkDropsNull(mid, result) ==
    IF result = PyNone THEN [id |-> mid] ELSE [id |-> mid, result |-> result]
\* an error envelope without the tool list
ErrWithoutAvailable(mid, msg, avail) == [id |-> mid, error |-> [message |-> msg]]

Ok(mid, result) == [id |-> mid, result |-> result]
Err(mid, msg, avail) == [id |-> mid, error |-> [message |-> msg, available |-> avail]]
\* the parse-error envelope of the three transports
InvalidJson == [id |-> None, error |-> [message |-> "invalid json"]]

NoResp == [none |-> "no response"]

\* outcome of a call: the value returned or the exception that escaped,
\* with the tool invocations made meanwhile
Return(resp, calls) == [raised |-> FALSE, exc |-> "", resp |-> resp, calls |-> calls]
Escape(msg, calls) == [raised |-> TRUE, exc |-> msg, resp |-> NoResp, calls |-> calls]

----------------------------------------------------------------------------
(* The shared RPC processor, mcp_server.py:88-122 *)

\* `name not in TOOLS` hashes name: a list or a dict cannot be hashed
Unhashable == {"list", "dict"}

\* what req["params"] raises when params is not a dict
SubscriptError(t) ==
    CASE t = "list" -> "list indices must be integers or slices, not str"
      [] t = "str" -> "string indices must be integers, not 'str'"
      [] OTHER -> "'" \o t \o "' object is not subscriptable"

\* a tool that failed is invoked a second time
InvokeWithRetry(name, a, host) ==
    LET t == ToolCall(name, a, host)
        call == [tool |-> name, args |-> a]
    IN  [res |-> t, calls |-> IF t.raised THEN <<call, call>> ELSE <<call>>]

\* line 115, TOOLS[name](params): the tool's outcome and the invocations made
Invoke(name, a, host) ==
    [res |-> ToolCall(name, a, host), calls |-> <<[tool |-> name, args |-> a]>>]

\* lines 109-115, the tools.call branch; raised = an exception inside the try
ToolsCallBranch(req, mid, tools, host) ==
    IF req.params = ABSENT THEN Escape("'params'", <<>>)                  \* KeyError, line 110
    ELSE IF req.params # "dict" THEN Escape(SubscriptError(req.params), <<>>)
    ELSE IF req.nameT = ABSENT THEN Escape("'name'", <<>>)                \* KeyError, line 110
    ELSE IF req.nameT \in Unhashable
         THEN Escape("unhashable type: '" \o req.nameT \o "'", <<>>)      \* line 112
    ELSE IF ~(req.nameT = "str" /\ req.name \in SeqToSet(tools))
         THEN Return(Err(mid, "unknown tool: " \o req.name, ToolKeys(tools)), <<>>)
    ELSE LET i == Invoke(req.name, EffArgs(req), host)
         IN  IF i.res.raised THEN Escape(i.res.val, i.calls)
             ELSE Return(Ok(mid, [name |-> req.name, data |-> i.res.val]), i.calls)

\* lines 94-105, the result of a lifecycle method
LifecycleMethods == {"initialize", "shutdown", "exit"}
\* initialize answered like shutdown
LifecycleResultNone(method) == PyNone
LifecycleResult(method) == IF method = "initialize" THEN Capabilities ELSE PyNone

\* the else branch as a bare message
UnknownMethodBare(mid, tools) == [id |-> mid, error |-> [message |-> "unknown method"]]

\* lines 116-118, the else branch
UnknownMethod(mid, tools) == Err(mid, "unknown method", ToolKeys(tools))

\* lines 93-119, the body of the try statement
TryBody(req, mid, method, tools, host) ==
    CASE method \in LifecycleMethods -> Return(Ok(mid, LifecycleResult(method)), <<>>)
      [] method = "tools.list" -> Return(Ok(mid, [tools |-> ToolKeys(tools)]), <<>>)
      [] method = "tools.call" -> ToolsCallBranch(req, mid, tools, host)
      [] OTHER -> Return(UnknownMethod(mid, tools), <<>>)

\* the handler answers without the request's id
HandlerLosesId(b, mid, tools) ==
    IF b.raised THEN Return(Err(None, b.exc, ToolKeys(tools)), b.calls) ELSE b
\* no handler: the exception leaves the function
HandlerReraises(b, mid, tools) == b

\* lines 120-122, `except Exception as e`
Handler(b, mid, tools) ==
    IF b.raised THEN Return(Err(mid, b.exc, ToolKeys(tools)), b.calls) ELSE b

\* req.get(...) of lines 90-91 (and 68-69) on a value that is not a dict
NoGetAttr(shape) == "'" \o shape \o "' object has no attribute 'get'"

_process_rpc_req(req, tools, host) ==
    IF req.shape # "dict" THEN Escape(NoGetAttr(req.shape), <<>>)        \* line 90, outside the try
    ELSE LET mid == Get(req.id)
             method == Get(req.method)
         IN  Handler(TryBody(req, mid, method, tools, host), mid, tools)

----------------------------------------------------------------------------
(* Inputs *)

Hosts == {"ok", "fail"}

Ids == {ABSENT, None, "1", "abc"}
Methods == {ABSENT, None, "initialize", "shutdown", "exit", "tools.list",
            "tools.call", "bogus", "5"}
NonDictShapes == {"list", "int", "str", "NoneType"}
NonDictParams == {ABSENT, "NoneType", "int", "list", "str"}

NameValues ==
    { [name |-> ABSENT, nameT |-> ABSENT] }
    \cup { [name |-> n, nameT |-> "str"] :
             n \in SeqToSet(RegisteredTools) \cup {"bogus.tool", "exec.run"} }
    \cup { [name |-> "5", nameT |-> "int"], [name |-> None, nameT |-> "NoneType"],
           [name |-> "['x']", nameT |-> "list"], [name |-> "{'a': 1}", nameT |-> "dict"] }

ArgValues ==
    { [args |-> a, argT |-> ABSENT, argN |-> 0] : a \in {ABSENT, None, "falsy", "truthy"} }
    \cup { [args |-> "dict", argT |-> t, argN |-> 0] : t \in {ABSENT, None, "str"} }
    \cup { [args |-> "dict", argT |-> "int", argN |-> n] : n \in 0..MaxLimit }

Req(shape, id, method, params, nv, av) ==
    [shape |-> shape, id |-> id, method |-> method, params |-> params,
     name |-> nv.name, nameT |-> nv.nameT,
     args |-> av.args, argT |-> av.argT, argN |-> av.argN]

NoName == [name |-> ABSENT, nameT |-> ABSENT]
NoArgs == [args |-> ABSENT, argT |-> ABSENT, argN |-> 0]

\* every parsed JSON value the processor is probed with
Requests ==
    { Req(s, ABSENT, ABSENT, ABSENT, NoName, NoArgs) : s \in NonDictShapes }
    \cup { Req("dict", i, m, p, NoName, NoArgs) : i \in Ids, m \in Methods, p \in NonDictParams }
    \cup { Req("dict", i, m, "dict", nv, av) :
             i \in Ids, m \in Methods, nv \in NameValues, av \in ArgValues }

\* a message or body that json.loads / request.json() rejects
Garbage == Req("invalid", ABSENT, ABSENT, ABSENT, NoName, NoArgs)

ReqInitialize == Req("dict", "1", "initialize", ABSENT, NoName, NoArgs)
ReqShutdown == Req("dict", None, "shutdown", ABSENT, NoName, NoArgs)
ReqList == Req("dict", "1", "tools.list", ABSENT, NoName, NoArgs)
ReqCall == Req("dict", "1", "tools.call", "dict", [name |-> "proc.top", nameT |-> "str"],
               [args |-> "dict", argT |-> "int", argN |-> 1])
ReqCallBadArg == Req("dict", "abc", "tools.call", "dict", [name |-> "fs.du", nameT |-> "str"],
                     [args |-> "dict", argT |-> "str", argN |-> 0])
ReqUnknownTool == Req("dict", "abc", "tools.call", "dict",
                      [name |-> "bogus.tool", nameT |-> "str"], NoArgs)
ReqNoParams == Req("dict", "1", "tools.call", ABSENT, NoName, NoArgs)
ReqUnknownMethod == Req("dict", ABSENT, "bogus", ABSENT, NoName, NoArgs)
ReqArray == Req("list", ABSENT, ABSENT, ABSENT, NoName, NoArgs)

\* the messages and bodies the transports are driven with: one per path
Payloads == {Garbage, ReqArray, ReqInitialize, ReqShutdown, ReqList, ReqCall,
             ReqCallBadArg, ReqUnknownTool, ReqNoParams, ReqUnknownMethod}

\* the bodies POST /mcp-sse is driven with
SsePayloads == {Garbage, ReqArray, ReqList, ReqUnknownMethod}

\* the bodies POST /mcp-sse is driven with when the stream transport is on its own
FanPayloads == SsePayloads \cup {ReqCall}

\* json.loads: the parsed value, or a failure for text that is not JSON
Parses(msg) == msg.shape # "invalid"

\* line 207 serialising the envelope without its id
DumpsWithoutId(resp) == [text |-> [k \in DOMAIN resp \ {"id"} |-> resp[k]]]

\* json.dumps(resp): the text carrying the envelope
Dumps(resp) == [text |-> resp]

----------------------------------------------------------------------------
(* LoggingMiddleware, logging_middleware.py:11-27 *)

\* header names as they may be written, in the configuration and on the wire
HeaderNames == {"Authorization", "authorization", "X-Api-Key", "x-api-key", "Accept"}
HeaderValues == {"secret", "text/plain"}

\* str.lower() compared without folding the case
LowerKeepsCase(k) == k

\* str.lower()
Lower(k) ==
    CASE k \in {"Authorization", "authorization"} -> "authorization"
      [] k \in {"X-Api-Key", "x-api-key"} -> "x-api-key"
      [] k = "Accept" -> "accept"
      [] OTHER -> k

\* the redact_headers argument of __init__: not given (None), or an iterable
NotConfigured == [given |-> FALSE, names |-> {}]
RedactConfigs ==
    { NotConfigured }
    \cup { [given |-> TRUE, names |-> ns] :
             ns \in { {}, {"X-Api-Key"}, {"Authorization", "x-api-key"} } }

\* line 17: self.redact_headers
redact_headers(cfg) ==
    { Lower(h) : h \in (IF ~cfg.given \/ cfg.names = {} THEN {"authorization"}
                                                          ELSE cfg.names) }

\* request.headers.items(): the header lines of the request, in order
HeaderLists ==
    UNION { [1..n -> [k : HeaderNames, v : HeaderValues]] : n \in 0..MaxHeaders }

\* lines 20-23: the dict comprehension; a later line of the same name
\* replaces the earlier one
LoggedHeaders(hdrs, redact) ==
    [k \in { hdrs[i].k : i \in 1..Len(hdrs) } |->
        LET last == CHOOSE i \in 1..Len(hdrs) :
                        hdrs[i].k = k /\ \A j \in (i+1)..Len(hdrs) : hdrs[j].k # k
        IN  IF Lower(k) \in redact THEN "<redacted>" ELSE hdrs[last].v]

MwIdle == [pc |-> "idle", cfg |-> NotConfigured, redact |-> {}, hdrs |-> <<>>,
           logged |-> <<>>]

----------------------------------------------------------------------------
(* State *)

Conns == 1..MaxConns
Subs == 1..MaxSubs
\* the connections of the duplex-only specification
DuplexConns == 1..MaxDuplex
\* the stream clients of the stream-only specification
FanSubs == 1..MaxFanOut

PostEndpoints == {"POST /mcp-http", "POST /mcp-sse"}

NoReq == Req("none", ABSENT, ABSENT, ABSENT, NoName, NoArgs)

ConnClosed == [st |-> "closed", req |-> NoReq, resp |-> NoResp, nproc |-> 0]
HttpIdle ==
    [ep |-> "none", req |-> NoReq, status |-> 0, body |-> NoResp, calls |-> <<>>,
     nproc |-> 0]
ProbeIdle == [pc |-> "idle", req |-> NoReq, host |-> "ok", out |-> Escape("", <<>>)]
ClientNone == [st |-> "none", gone |-> FALSE]
\* no handler is inside a tool: the event loop is free to run any ready task
LoopIdle == [by |-> "idle", c |-> 0, host |-> "ok"]
\* nothing published, registered, taken from a queue or deregistered yet
NoHistory == [pubs |-> <<>>, reg |-> <<>>, left |-> <<>>, dereg |-> <<>>]

Init ==
    /\ TOOLS = RegisteredTools
    /\ probe = ProbeIdle
    /\ conns = [c \in Conns |-> ConnClosed]
    /\ http = HttpIdle
    /\ subs = {}
    /\ queues = [s \in Subs |-> <<>>]
    /\ clients = [s \in Subs |-> ClientNone]
    /\ loop = LoopIdle
    /\ badJson = {}
    /\ mw = MwIdle
    /\ hist = NoHistory

\* requests being handled and responses not yet written to their transport
InFlight ==
    Cardinality({c \in DOMAIN conns : conns[c].st \in {"running", "sending"}})
    + (IF http.ep = "none" THEN 0 ELSE 1)

\* the request reaches TOOLS[name](params), line 114: the handler calls the
\* tool synchronously, inside its coroutine
RunsTool(req, tools) == _process_rpc_req(req, tools, "ok").calls # <<>>

----------------------------------------------------------------------------
(* Duplex transport, mcp_server.py:49-84 *)

\* lines 78-82 with the list initialised empty
EnsureAvailableRewrites(resp, tools) ==
    IF "error" \in DOMAIN resp
    THEN [id |-> resp.id, error |-> [message |-> resp.error.message, available |-> <<>>]]
    ELSE resp

\* lines 78-82
EnsureAvailable(resp, tools) ==
    IF "error" \in DOMAIN resp /\ "available" \notin DOMAIN resp.error
    THEN [id |-> resp.id,
          error |-> [message |-> resp.error.message, available |-> ToolKeys(tools)]]
    ELSE resp

\* lines 71-76: the call of the processor and the defensive except
WsProcess(req, tools, host) ==
    LET out == _process_rpc_req(req, tools, host)
    IN  IF out.raised THEN Err(Get(req.id), out.exc, ToolKeys(tools)) ELSE out.resp

\* lines 62-65 with `break` in the place of `continue`
OnInvalidJsonBreak(msg) ==
    [st |-> "done", req |-> msg, resp |-> InvalidJson, nproc |-> 0]

\* lines 62-65: the reply to a message json.loads rejects; then `continue`
OnInvalidJson(msg) ==
    [st |-> "sending", req |-> msg, resp |-> InvalidJson, nproc |-> 0]

\* lines 59-82 on the received msg: the task as it reaches `await ws.send_text`,
\* or as the exception of line 68 leaves it
WsHandle(msg, tools, host) ==
    IF ~Parses(msg)
    THEN OnInvalidJson(msg)
    ELSE IF msg.shape # "dict"
    THEN [st |-> "crashed", req |-> msg, resp |-> NoResp, nproc |-> 0]  \* line 68 raises
    ELSE [st |-> "sending", req |-> msg,
          resp |-> EnsureAvailable(WsProcess(msg, tools, host), tools), nproc |-> 1]

\* line 52, ws.accept()
WsAccept(c) ==
    /\ loop = LoopIdle
    /\ conns[c].st = "closed"
    /\ conns' = [conns EXCEPT ![c].st = "reading"]
    /\ UNCHANGED <<TOOLS, probe, http, subs, queues, clients, loop, badJson, mw, hist>>

\* lines 55-84: receive_text returned msg; the handler runs up to
\* `await ws.send_text`, or into the tool the message invokes
WsReceive(c, msg, host) ==
    /\ loop = LoopIdle
    /\ conns[c].st = "reading"
    /\ InFlight < MaxInFlight
    /\ IF RunsTool(msg, TOOLS)
       THEN /\ conns' = [conns EXCEPT ![c] =
                           [st |-> "running", req |-> msg, resp |-> NoResp, nproc |-> 1]]
            /\ loop' = [by |-> "duplex", c |-> c, host |-> host]
       ELSE /\ conns' = [conns EXCEPT ![c] = WsHandle(msg, TOOLS, host)]
            /\ loop' = loop
    /\ UNCHANGED <<TOOLS, probe, http, subs, queues, clients, badJson, mw, hist>>

\* the tool called on line 114 returns or raises; the handler goes on to
\* `await ws.send_text`
WsToolReturns(c) ==
    /\ loop.by = "duplex" /\ loop.c = c
    /\ conns' = [conns EXCEPT ![c] = WsHandle(conns[c].req, TOOLS, loop.host)]
    /\ loop' = LoopIdle
    /\ UNCHANGED <<TOOLS, probe, http, subs, queues, clients, badJson, mw, hist>>

\* `await ws.send_text(...)` completes; the loop goes back to receive_text
WsSend(c) ==
    /\ loop = LoopIdle
    /\ conns[c].st = "sending"
    /\ conns' = [conns EXCEPT ![c] =
                   [st |-> "reading", req |-> NoReq, resp |-> NoResp, nproc |-> 0]]
    /\ UNCHANGED <<TOOLS, probe, http, subs, queues, clients, loop, mw, hist>>

\* the history of the replies written by WsSend: the connections that were
\* sent the reply of lines 62-65
Replied(c) == IF Parses(conns[c].req) THEN badJson ELSE badJson \cup {c}

\* lines 56-57: receive_text raises WebSocketDisconnect, the loop breaks
WsDisconnect(c) ==
    /\ loop = LoopIdle
    /\ conns[c].st = "reading"
    /\ conns' = [conns EXCEPT ![c].st = "done"]
    /\ UNCHANGED <<TOOLS, probe, http, subs, queues, clients, loop, badJson, mw, hist>>

----------------------------------------------------------------------------
(* One-shot HTTP endpoints *)

\* what the serving runtime answers when a handler lets an exception escape
ServerError(ep, body, out) ==
    [ep |-> ep, req |-> body, status |-> 500, body |-> NoResp, calls |-> out.calls,
     nproc |-> 1]

\* lines 132-137 and 202-207 with the unparsable body replaced by {}
PostExchangeLenient(ep, body, tools, host) ==
    LET payload == IF Parses(body) THEN body
                   ELSE Req("dict", ABSENT, ABSENT, ABSENT, NoName, NoArgs)
        out == _process_rpc_req(payload, tools, host)
    IN  IF out.raised THEN ServerError(ep, body, out)
        ELSE [ep |-> ep, req |-> body, status |-> 200, body |-> out.resp,
              calls |-> out.calls, nproc |-> 1]

\* the exchange of a POST endpoint, lines 132-137 and 202-207
PostExchange(ep, body, tools, host) ==
    IF ~Parses(body)
    THEN [ep |-> ep, req |-> body, status |-> 400, body |-> InvalidJson, calls |-> <<>>,
          nproc |-> 0]
    ELSE LET out == _process_rpc_req(body, tools, host)
         IN  IF out.raised THEN ServerError(ep, body, out)
             ELSE [ep |-> ep, req |-> body, status |-> 200, body |-> out.resp,
                   calls |-> out.calls, nproc |-> 1]

\* a POST handler that is inside the tool its body invokes
PostRunning(ep, body) ==
    [ep |-> ep, req |-> body, status |-> 0, body |-> NoResp, calls |-> <<>>, nproc |-> 1]

\* the serving runtime has written the response of a one-shot endpoint
HttpRespond ==
    /\ loop = LoopIdle
    /\ http.ep # "none"
    /\ http' = HttpIdle
    /\ UNCHANGED <<TOOLS, probe, conns, subs, queues, clients, loop, badJson, mw, hist>>

\* mcp_server.py:43-46, GET /
health ==
    /\ loop = LoopIdle
    /\ InFlight < MaxInFlight
    /\ http' = [ep |-> "GET /", req |-> NoReq, status |-> 200,
                body |-> [text |-> "mcp:ok"], calls |-> <<>>, nproc |-> 0]
    /\ UNCHANGED <<TOOLS, probe, conns, subs, queues, clients, loop, badJson, mw, hist>>

\* mcp_server.py:126-137, POST /mcp-http
mcp_http(body, host) ==
    /\ loop = LoopIdle
    /\ InFlight < MaxInFlight
    /\ IF RunsTool(body, TOOLS)
       THEN /\ http' = PostRunning("POST /mcp-http", body)
            /\ loop' = [by |-> "POST /mcp-http", c |-> 0, host |-> host]
       ELSE /\ http' = PostExchange("POST /mcp-http", body, TOOLS, host)
            /\ loop' = loop
    /\ UNCHANGED <<TOOLS, probe, conns, subs, queues, clients, badJson, mw, hist>>

\* mcp_server.py:150-155, OPTIONS /mcp-http
mcp_http_options ==
    /\ loop = LoopIdle
    /\ InFlight < MaxInFlight
    /\ http' = [ep |-> "OPTIONS /mcp-http", req |-> NoReq, status |-> 200,
                body |-> [allow |-> "POST, GET, OPTIONS"], calls |-> <<>>, nproc |-> 0]
    /\ UNCHANGED <<TOOLS, probe, conns, subs, queues, clients, loop, badJson, mw, hist>>

----------------------------------------------------------------------------
(* Stream transport, mcp_server.py:158-219 *)

\* lines 180-193: a queue is created and registered, the StreamingResponse is
\* returned; its body, event_stream, has not started yet
mcp_sse_subscribe(s) ==
    /\ loop = LoopIdle
    /\ clients[s].st = "none"
    /\ subs' = subs \cup {s}
    /\ queues' = [queues EXCEPT ![s] = <<>>]
    /\ clients' = [clients EXCEPT ![s].st = "registered"]
    /\ UNCHANGED <<TOOLS, probe, conns, http, loop, badJson, mw>>

\* mcp_server.py:140-147, GET /mcp-http
mcp_http_get(sse, s) ==
    IF sse
    THEN mcp_sse_subscribe(s)
    ELSE /\ loop = LoopIdle
         /\ InFlight < MaxInFlight
         /\ http' = [ep |-> "GET /mcp-http", req |-> NoReq, status |-> 200,
                     body |-> [status |-> "ok", tools |-> ToolKeys(TOOLS)], calls |-> <<>>,
                     nproc |-> 0]
         /\ UNCHANGED <<TOOLS, probe, conns, subs, queues, clients, loop, badJson, mw, hist>>

\* the body of the response starts: event_stream enters _sse_event_generator
\* and blocks in q.get(), lines 184 and 166
StreamStart(s) ==
    /\ loop = LoopIdle
    /\ clients[s].st = "registered"
    /\ clients' = [clients EXCEPT ![s].st = "waiting"]
    /\ UNCHANGED <<TOOLS, probe, conns, http, subs, queues, loop, badJson, mw, hist>>

\* q.get() returns an item, lines 166-168 and 184-191: the chunk is yielded to
\* the client, unless the client is seen to be gone, which ends the stream and
\* deregisters the queue
StreamNext(s) ==
    /\ loop = LoopIdle
    /\ clients[s].st = "waiting"
    /\ queues[s] # <<>>
    /\ IF clients[s].gone
       THEN /\ clients' = [clients EXCEPT ![s].st = "ended"]
            /\ subs' = subs \ {s}
            /\ queues' = [queues EXCEPT ![s] = <<>>]     \* q is dropped with the generator
       ELSE /\ queues' = [queues EXCEPT ![s] = Tail(queues[s])]
            /\ UNCHANGED <<clients, subs>>
    /\ UNCHANGED <<TOOLS, probe, conns, http, loop, badJson, mw>>

\* a serving runtime that watches the connection cancels the body blocked in
\* q.get(): `finally: return` of lines 169-171 ends the generator, the
\* `async for` of line 184 ends and the finally of lines 188-191 deregisters
\* the queue; a runtime that does not watch never takes this step
StreamCancelled(s) ==
    /\ loop = LoopIdle
    /\ clients[s].st = "waiting"
    /\ clients[s].gone
    /\ clients' = [clients EXCEPT ![s].st = "ended"]
    /\ subs' = subs \ {s}
    /\ queues' = [queues EXCEPT ![s] = <<>>]
    /\ UNCHANGED <<TOOLS, probe, conns, http, loop, badJson, mw>>

\* the stream client goes away
ClientDisconnect(s) ==
    /\ clients[s].st \in {"registered", "waiting"}
    /\ ~clients[s].gone
    /\ clients' = [clients EXCEPT ![s].gone = TRUE]
    /\ UNCHANGED <<TOOLS, probe, conns, http, subs, queues, loop, badJson, mw, hist>>

\* line 213 run twice for the same text
PutNowaitTwice(q, text) == Append(Append(q, text), text)

\* q.put_nowait(text) on an asyncio.Queue() created without maxsize
PutNowait(q, text) == Append(q, text)

\* lines 209-217 with a `break` after the first subscriber
PublishToFirst(qs, registered, text) ==
    [s \in DOMAIN qs |->
        IF s \in registered /\ \A t \in registered : s <= t
        THEN PutNowait(qs[s], text) ELSE qs[s]]

\* lines 209-217: the text is put on the queue of every registered subscriber
Publish(qs, registered, text) ==
    [s \in DOMAIN qs |-> IF s \in registered THEN PutNowait(qs[s], text) ELSE qs[s]]

\* every registered queue holds fewer than cap events
QueueRoom(cap) == \A s \in subs : Len(queues[s]) < cap

\* mcp_server.py:196-219, POST /mcp-sse
mcp_sse_post(body, host) ==
    /\ loop = LoopIdle
    /\ InFlight < MaxInFlight
    /\ IF RunsTool(body, TOOLS)
       THEN /\ http' = PostRunning("POST /mcp-sse", body)
            /\ loop' = [by |-> "POST /mcp-sse", c |-> 0, host |-> host]
            /\ queues' = queues
       ELSE LET x == PostExchange("POST /mcp-sse", body, TOOLS, host)
            IN  /\ http' = x
                /\ loop' = loop
                /\ queues' = IF x.status = 200
                             THEN Publish(queues, subs, Dumps(x.body))
                             ELSE queues
    /\ UNCHANGED <<TOOLS, probe, conns, subs, clients, badJson, mw>>

\* the same return with the publish loop of lines 209-218 run by every POST
\* handler
HttpToolReturnsPublishing ==
    /\ loop.by \in PostEndpoints
    /\ LET x == PostExchange(loop.by, http.req, TOOLS, loop.host)
       IN  /\ http' = x
           /\ queues' = IF x.status = 200
                        THEN Publish(queues, subs, Dumps(x.body))
                        ELSE queues
    /\ loop' = LoopIdle
    /\ UNCHANGED <<TOOLS, probe, conns, subs, clients, badJson, mw, hist>>

\* the tool called on line 114 from a POST handler returns or raises; the
\* handler runs to its return, publishing first on POST /mcp-sse
HttpToolReturns ==
    /\ loop.by \in PostEndpoints
    /\ LET x == PostExchange(loop.by, http.req, TOOLS, loop.host)
       IN  /\ http' = x
           /\ queues' = IF loop.by = "POST /mcp-sse" /\ x.status = 200
                        THEN Publish(queues, subs, Dumps(x.body))
                        ELSE queues
    /\ loop' = LoopIdle
    /\ UNCHANGED <<TOOLS, probe, conns, subs, clients, badJson, mw, hist>>

----------------------------------------------------------------------------
(* Specifications *)

Next ==
    \/ \E c \in Conns : WsAccept(c)
    \/ \E c \in Conns, msg \in Payloads, host \in Hosts : WsReceive(c, msg, host)
    \/ \E c \in Conns : WsToolReturns(c)
    \/ \E c \in Conns : WsSend(c) /\ UNCHANGED badJson
    \/ \E c \in Conns : WsDisconnect(c)
    \/ health
    \/ HttpRespond
    \/ \E body \in Payloads, host \in Hosts : mcp_http(body, host)
    \/ \E s \in Subs, sse \in BOOLEAN :
          mcp_http_get(sse, s) /\ (IF sse THEN UNCHANGED hist ELSE TRUE)
    \/ mcp_http_options
    \/ \E s \in Subs : mcp_sse_subscribe(s) /\ UNCHANGED hist
    \/ \E s \in Subs : StreamStart(s)
    \/ \E s \in Subs : StreamNext(s) /\ UNCHANGED hist
    \/ \E s \in Subs : StreamCancelled(s) /\ UNCHANGED hist
    \/ \E s \in Subs : ClientDisconnect(s)
    \/ \E body \in SsePayloads, host \in Hosts :
          QueueRoom(MaxQueue) /\ mcp_sse_post(body, host) /\ UNCHANGED hist
    \/ HttpToolReturns

\* the server: every transport, driven with one payload per path
Spec == Init /\ [][Next]_vars

\* a direct call of the processor on any parsed value
ProbeInit ==
    /\ Init!1 /\ Init!3 /\ Init!4 /\ Init!5 /\ Init!6 /\ Init!7 /\ Init!8 /\ Init!9 /\ Init!10 /\ Init!11
    /\ \E r \in Requests, h \in Hosts :
         probe = [pc |-> "call", req |-> r, host |-> h, out |-> Escape("", <<>>)]

ProbeCall ==
    /\ probe.pc = "call"
    /\ probe' = [probe EXCEPT !.pc = "done",
                              !.out = _process_rpc_req(probe.req, TOOLS, probe.host)]
    /\ UNCHANGED <<TOOLS, conns, http, subs, queues, clients, loop, badJson, mw, hist>>

NextProbe == ProbeCall

SpecProbe == ProbeInit /\ [][NextProbe]_vars

\* the duplex transport on its own, with several connections and the history
\* of the invalid-json replies
DuplexInit ==
    /\ Init!1 /\ Init!2 /\ Init!4 /\ Init!5 /\ Init!6 /\ Init!7 /\ Init!8 /\ Init!9 /\ Init!10 /\ Init!11
    /\ conns = [c \in DuplexConns |-> ConnClosed]

NextDuplex ==
    \/ \E c \in DuplexConns : WsAccept(c)
    \/ \E c \in DuplexConns, msg \in Payloads, host \in Hosts : WsReceive(c, msg, host)
    \/ \E c \in DuplexConns : WsToolReturns(c)
    \/ \E c \in DuplexConns : WsSend(c) /\ badJson' = Replied(c)
    \/ \E c \in DuplexConns : WsDisconnect(c)

SpecDuplex == DuplexInit /\ [][NextDuplex]_vars

\* a request entering the installed middleware, for every configuration
LogInit ==
    /\ Init!1 /\ Init!2 /\ Init!3 /\ Init!4 /\ Init!5 /\ Init!6 /\ Init!7
    /\ Init!8 /\ Init!9 /\ Init!11
    /\ \E cfg \in RedactConfigs, hdrs \in HeaderLists :
         mw = [pc |-> "request", cfg |-> cfg, redact |-> redact_headers(cfg),
               hdrs |-> hdrs, logged |-> <<>>]

\* logging_middleware.py:20-24: the headers are filtered and logged
dispatch ==
    /\ mw.pc = "request"
    /\ mw' = [mw EXCEPT !.pc = "called",
                        !.logged = LoggedHeaders(mw.hdrs, mw.redact)]
    /\ UNCHANGED <<TOOLS, probe, conns, http, subs, queues, clients, loop, badJson, hist>>

\* logging_middleware.py:25-27: call_next returns, the response is logged
call_next ==
    /\ mw.pc = "called"
    /\ mw' = [mw EXCEPT !.pc = "done"]
    /\ UNCHANGED <<TOOLS, probe, conns, http, subs, queues, clients, loop, badJson, hist>>

NextLog == dispatch \/ call_next

SpecLog == LogInit /\ [][NextLog]_vars

\* the stream transport on its own, with several subscribers
StreamInit ==
    /\ Init!1 /\ Init!2 /\ Init!3 /\ Init!4 /\ Init!5 /\ Init!8 /\ Init!9 /\ Init!10 /\ Init!11
    /\ queues = [s \in FanSubs |-> <<>>]
    /\ clients = [s \in FanSubs |-> ClientNone]

NextStream ==
    \/ \E s \in FanSubs : mcp_sse_subscribe(s) /\ UNCHANGED hist
    \/ \E s \in FanSubs, sse \in BOOLEAN :
          mcp_http_get(sse, s) /\ (IF sse THEN UNCHANGED hist ELSE TRUE)
    \/ \E s \in FanSubs : StreamStart(s)
    \/ \E s \in FanSubs : StreamNext(s) /\ UNCHANGED hist
    \/ \E s \in FanSubs : StreamCancelled(s) /\ UNCHANGED hist
    \/ \E s \in FanSubs : ClientDisconnect(s)
    \/ \E body \in FanPayloads, host \in Hosts :
          QueueRoom(MaxQueue) /\ mcp_sse_post(body, host) /\ UNCHANGED hist
    \/ HttpToolReturns
    \/ HttpRespond

SpecStream == StreamInit /\ [][NextStream]_vars

\* the steps the event loop owes to a ready task: it starts the body of a
\* returned response, resumes a q.get() whose queue holds an item, lets a
\* called tool return and writes a computed response
StreamFairness ==
    /\ \A s \in FanSubs : WF_vars(StreamStart(s)) /\ WF_vars(StreamNext(s) /\ UNCHANGED hist)
    /\ WF_vars(HttpToolReturns)
    /\ WF_vars(HttpRespond)

SpecStreamFair == StreamInit /\ [][NextStream]_vars /\ StreamFairness

\* the stream transport with the history of what was published, when each
\* subscriber was registered and deregistered, and what left its queue
DeliveryPayloads == {Garbage, ReqList, ReqUnknownMethod}

\* line 181: s is registered after Len(hist.pubs) publishes
Registered(s) ==
    [hist EXCEPT !.reg = (s :> Len(hist.pubs)) @@ @, !.left = (s :> <<>>) @@ @]

\* line 166: q.get() takes the head of the queue of s; lines 186-191: the
\* client is seen gone and s is deregistered
Left(s) ==
    [hist EXCEPT !.left[s] = Append(@, queues[s][1].text),
                 !.dereg = IF clients[s].gone THEN (s :> Len(hist.pubs)) @@ @ ELSE @]

\* lines 188-191: s is deregistered after Len(hist.pubs) publishes
Deregistered(s) == [hist EXCEPT !.dereg = (s :> Len(hist.pubs)) @@ @]

\* lines 206-219: the response POST /mcp-sse has just returned was published
Logged ==
    IF http'.status = 200 THEN [hist EXCEPT !.pubs = Append(@, http'.body)] ELSE hist

NextDelivery ==
    \/ \E s \in FanSubs : mcp_sse_subscribe(s) /\ hist' = Registered(s)
    \/ \E s \in FanSubs : StreamStart(s)
    \/ \E s \in FanSubs : StreamNext(s) /\ hist' = Left(s)
    \/ \E s \in FanSubs : StreamCancelled(s) /\ hist' = Deregistered(s)
    \/ \E s \in FanSubs : ClientDisconnect(s)
    \/ \E body \in DeliveryPayloads, host \in Hosts :
          /\ Len(hist.pubs) < MaxPubs
          /\ mcp_sse_post(body, host)
          /\ hist' = Logged
    \/ HttpRespond

SpecDelivery == StreamInit /\ [][NextDelivery]_vars

----------------------------------------------------------------------------
(* Properties *)

\* what the test suite expects tools.list to hold, tests/test_mcp_server.py:19
ExpectedTools == {"fs.du", "fs.bigfiles", "pkg.caches", "docker.df", "proc.top"}

IsObject(r) == r.shape = "dict"
NamesRegistered(r) ==
    /\ IsObject(r) /\ Get(r.method) = "tools.call" /\ r.params = "dict"
    /\ r.nameT = "str" /\ r.name \in ExpectedTools
ProbeDone == probe.pc = "done"

\* the exchanges in which a parsed request got an envelope back
DuplexAnswered(c) == conns[c].st = "sending" /\ Parses(conns[c].req)
HttpAnswered == http.ep \in PostEndpoints /\ http.status = 200

\* every envelope the server has produced and not yet written or delivered
Envelopes ==
    { conns[c].resp : c \in { d \in DOMAIN conns : conns[d].st = "sending" } }
    \cup (IF http.ep \in PostEndpoints /\ http.status \in {200, 400}
          THEN {http.body} ELSE {})
    \cup UNION { { queues[s][i].text : i \in 1..Len(queues[s]) } : s \in DOMAIN queues }
    \cup (IF ProbeDone /\ ~probe.out.raised THEN {probe.out.resp} ELSE {})

IsErrorWithAvailable(e, mid) ==
    /\ DOMAIN e = {"id", "error"}
    /\ e.id = mid
    /\ DOMAIN e.error = {"message", "available"}
    /\ SeqToSet(e.error.available) = ExpectedTools
    /\ Len(e.error.available) = Cardinality(ExpectedTools)

\* C1: whatever parsed JSON value _process_rpc_req is given, and whatever the
\* tool does, it returns an envelope and lets no exception escape.
C1_NeverRaises == ProbeDone => ~probe.out.raised

\* C2: echo invariant: on every transport and for every outcome the id of the
\* response is the id of the request, and null when the request has none.
C2_Echo ==
    /\ \A c \in DOMAIN conns :
         DuplexAnswered(c) =>
           conns[c].resp.id = (IF conns[c].req.id = ABSENT THEN None ELSE conns[c].req.id)
    /\ HttpAnswered =>
           http.body.id = (IF http.req.id = ABSENT THEN None ELSE http.req.id)
    /\ (http.ep = "POST /mcp-sse" /\ http.status = 200) =>
           \A s \in subs : queues[s] # <<>> =>
               queues[s][Len(queues[s])].text.id = http.body.id

C2_Witness ==
    \E c \in DOMAIN conns : /\ DuplexAnswered(c) /\ conns[c].req = ReqCallBadArg
                     /\ "error" \in DOMAIN conns[c].resp
                     /\ conns[c].resp.id = "abc"

\* C3: every response envelope holds the key id and exactly one of result and
\* error; a null result is still a result.
C3_OneOfResultError ==
    \A e \in Envelopes :
        /\ "id" \in DOMAIN e
        /\ DOMAIN e \subseteq {"id", "result", "error"}
        /\ ("result" \in DOMAIN e) # ("error" \in DOMAIN e)

C3_Witness ==
    /\ HttpAnswered /\ http.req = ReqShutdown
    /\ "result" \in DOMAIN http.body /\ http.body.result = PyNone

\* C4: every error envelope that answers a parsed request carries a message
\* and the full list of registered tool names as available.
C4_ErrorsCarryAvailable ==
    /\ \A c \in DOMAIN conns :
         (DuplexAnswered(c) /\ "error" \in DOMAIN conns[c].resp) =>
             IsErrorWithAvailable(conns[c].resp, conns[c].resp.id)
    /\ (HttpAnswered /\ "error" \in DOMAIN http.body) =>
             IsErrorWithAvailable(http.body, http.body.id)

C4_Witness ==
    /\ HttpAnswered /\ http.req = ReqUnknownMethod
    /\ "error" \in DOMAIN http.body
    /\ http.body.error.message = "unknown method"

\* C5: a tools.call whose params.name is not a registered tool name gets the
\* error "unknown tool: <name>" with available, and no tool is invoked.
C5_UnknownTool ==
    (/\ ProbeDone /\ IsObject(probe.req) /\ Get(probe.req.method) = "tools.call"
     /\ probe.req.params = "dict" /\ probe.req.nameT # ABSENT
     /\ ~NamesRegistered(probe.req))
    => /\ ~probe.out.raised
       /\ IsErrorWithAvailable(probe.out.resp, Get(probe.req.id))
       /\ probe.out.resp.error.message = "unknown tool: " \o probe.req.name
       /\ probe.out.calls = <<>>

\* C6: a request whose method is none of the five known ones, or is missing,
\* gets the error "unknown method" with available, and no tool is invoked.
C6_UnknownMethod ==
    (/\ ProbeDone /\ IsObject(probe.req)
     /\ Get(probe.req.method) \notin
            {"initialize", "shutdown", "exit", "tools.list", "tools.call"})
    => /\ ~probe.out.raised
       /\ IsErrorWithAvailable(probe.out.resp, Get(probe.req.id))
       /\ probe.out.resp.error.message = "unknown method"
       /\ probe.out.calls = <<>>

C6_Witness ==
    /\ ProbeDone /\ IsObject(probe.req) /\ probe.req.method = ABSENT
    /\ probe.req.params = "dict" /\ probe.req.name = "proc.top"
    /\ ~probe.out.raised /\ "error" \in DOMAIN probe.out.resp

\* C7: the registry never changes: after any sequence of requests, subscribes,
\* publishes and disconnects, tools.list returns exactly the registered set.
ListsExpected(r, e) ==
    (IsObject(r) /\ Get(r.method) = "tools.list") =>
        /\ DOMAIN e = {"id", "result"}
        /\ DOMAIN e.result = {"tools"}
        /\ SeqToSet(e.result.tools) = ExpectedTools
        /\ Len(e.result.tools) = Cardinality(ExpectedTools)

C7_RegistryFixed ==
    /\ SeqToSet(TOOLS) = ExpectedTools
    /\ \A c \in DOMAIN conns : DuplexAnswered(c) => ListsExpected(conns[c].req, conns[c].resp)
    /\ HttpAnswered => ListsExpected(http.req, http.body)
    /\ http.ep = "GET /mcp-http" => SeqToSet(http.body.tools) = ExpectedTools

C7_Witness ==
    /\ \E c \in Conns : DuplexAnswered(c) /\ conns[c].req = ReqList
    /\ \E s \in Subs : clients[s].st = "ended"

\* C8: initialize, shutdown and exit always succeed, whatever the id and the
\* params: capabilities for initialize, a null result for the other two, and
\* no tool is invoked.
C8_LifecycleSucceeds ==
    (/\ ProbeDone /\ IsObject(probe.req)
     /\ Get(probe.req.method) \in {"initialize", "shutdown", "exit"})
    => /\ ~probe.out.raised
       /\ probe.out.resp =
            [id |-> IF probe.req.id = ABSENT THEN None ELSE probe.req.id,
             result |-> IF probe.req.method = "initialize"
                        THEN [capabilities |-> "{}"] ELSE [py |-> None]]
       /\ probe.out.calls = <<>>

C8_Witness ==
    /\ ProbeDone /\ IsObject(probe.req) /\ probe.req.method = "initialize"
    /\ probe.req.params = "int" /\ probe.req.id = ABSENT
    /\ "result" \in DOMAIN probe.out.resp

\* C9: a tools.call naming a registered tool invokes that tool exactly once,
\* with the arguments object, also when it fails; when the tool returns v the
\* response is the success envelope {name, data: v}; any other request invokes
\* no tool.
EmptyObject == [args |-> "dict", argT |-> ABSENT, argN |-> 0]

C9_InvokedOnce ==
    ProbeDone =>
      LET r == probe.req
          calls == probe.out.calls
      IN  IF NamesRegistered(r)
          THEN /\ Len(calls) = 1
               /\ calls[1].tool = r.name
               /\ r.args \in {ABSENT, None} => calls[1].args = EmptyObject
               /\ r.args = "dict" =>
                    calls[1].args = [args |-> "dict", argT |-> r.argT, argN |-> r.argN]
               /\ LET t == ToolCall(r.name, calls[1].args, probe.host)
                  IN  ~t.raised =>
                        /\ ~probe.out.raised
                        /\ probe.out.resp =
                             [id |-> IF r.id = ABSENT THEN None ELSE r.id,
                              result |-> [name |-> r.name, data |-> t.val]]
          ELSE calls = <<>>

C9_Witness ==
    /\ ProbeDone /\ NamesRegistered(probe.req) /\ probe.req.name = "proc.top"
    /\ probe.req.args = "dict" /\ probe.req.argT = "int" /\ probe.req.argN = 1
    /\ Len(probe.out.calls) = 1
    /\ "result" \in DOMAIN probe.out.resp
    /\ probe.out.resp.result.data = "procs[:1]"

\* C10: a failure raised by the invoked tool is caught: the answer is an error
\* envelope with the request's id, the failure's message and available; the
\* failure reaches no transport adapter and the connection goes on.
Outcomes(r) == { ToolCall(r.name, EffArgs(r), h) : h \in Hosts }

AnswersCall(r, e) ==
    /\ "error" \in DOMAIN e =>
         /\ IsErrorWithAvailable(e, IF r.id = ABSENT THEN None ELSE r.id)
         /\ \E t \in Outcomes(r) : t.raised /\ e.error.message = t.val
    /\ "error" \notin DOMAIN e =>
         \E t \in Outcomes(r) :
            ~t.raised /\ e = [id |-> IF r.id = ABSENT THEN None ELSE r.id,
                              result |-> [name |-> r.name, data |-> t.val]]

C10_ToolFailureContained ==
    /\ \A c \in DOMAIN conns :
         NamesRegistered(conns[c].req) =>
            /\ conns[c].st \in {"running", "sending"}
            /\ conns[c].st = "sending" => AnswersCall(conns[c].req, conns[c].resp)
    /\ (http.ep \in PostEndpoints /\ NamesRegistered(http.req)) =>
            /\ http.status \in {0, 200}
            /\ http.status = 200 => AnswersCall(http.req, http.body)

C10_Witness ==
    \E c \in DOMAIN conns :
        /\ conns[c].st = "sending" /\ conns[c].req = ReqCall
        /\ "error" \in DOMAIN conns[c].resp
        /\ conns[c].resp.error.message = "psutil failure"

\* C11: an unparsable message on the duplex transport does not close the
\* connection: the reply is {id: null, error: {message: "invalid json"}}, the
\* processor is not called for it, the task goes back to reading once the
\* reply is written, and a later tools.list on the same connection still
\* gets its success response.
C11_InvalidJsonKeepsConnection ==
    [][\A c \in DOMAIN conns :
         /\ ~Parses(conns[c].req) =>
               /\ conns[c].st = "sending"
               /\ conns[c].resp = InvalidJson
               /\ conns[c].nproc = 0
               /\ conns'[c] # conns[c] => conns'[c].st = "reading"
         /\ (c \in badJson /\ DuplexAnswered(c)) =>
               ListsExpected(conns[c].req, conns[c].resp)]_vars

C11_Witness ==
    \E c \in badJson :
        /\ DuplexAnswered(c) /\ conns[c].req = ReqList
        /\ "result" \in DOMAIN conns[c].resp

\* C12: the read loop of a duplex connection ends only when the read step
\* reports a disconnect: no received message, whatever its content, ends the
\* loop or crashes the task, so a task that has ended holds no message.
C12_OnlyDisconnectEndsLoop ==
    \A c \in DOMAIN conns :
        conns[c].st \notin {"closed", "reading", "running", "sending"} =>
            /\ conns[c].st = "done"
            /\ conns[c].req = NoReq

\* C13: on one duplex connection every message is handled fully before the
\* next is read: a message is read only when no response is outstanding, each
\* message read gets exactly one response, and that response is written
\* before the next message is read.
C13_OneResponsePerMessage ==
    [][\A c \in DOMAIN conns :
         /\ (conns[c].req = NoReq /\ conns'[c].req # NoReq) =>
               /\ conns[c].st = "reading"
               /\ conns'[c].st \in {"running", "sending"}
         /\ (conns[c].st = "running" /\ conns'[c] # conns[c]) =>
               /\ conns'[c].st = "sending"
               /\ conns'[c].req = conns[c].req
         /\ (conns[c].st = "sending" /\ conns'[c] # conns[c]) =>
               /\ conns'[c].st = "reading"
               /\ conns'[c].req = NoReq]_vars

\* C14: a slow tool invocation blocks only the task that issued it: while it
\* runs, every other task that is ready can take its step: a connection is
\* accepted, a computed response is written, a stream body starts, a queued
\* event is delivered.
C14_OthersProceed ==
    /\ \A c \in DOMAIN conns :
         /\ conns[c].st = "closed" => ENABLED WsAccept(c)
         /\ conns[c].st = "sending" => ENABLED WsSend(c)
    /\ \A s \in DOMAIN clients :
         /\ clients[s].st = "registered" => ENABLED StreamStart(s)
         /\ (clients[s].st = "waiting" /\ queues[s] # <<>>) => ENABLED StreamNext(s)
    /\ (http.ep # "none" /\ http.status # 0) => ENABLED HttpRespond

\* C15: a message or body that is not JSON never reaches the processor: on
\* POST /mcp-http, POST /mcp-sse and the duplex transport the reply is
\* {id: null, error: {message: "invalid json"}}, with status 400 on the HTTP
\* endpoints, no tool is invoked and nothing is put on a subscriber queue.
C15_ParseErrorsStayInTransport ==
    [][/\ (http' # http /\ http'.ep \in PostEndpoints /\ ~Parses(http'.req)) =>
             /\ http'.status = 400
             /\ http'.body = InvalidJson
             /\ http'.nproc = 0
             /\ http'.calls = <<>>
             /\ queues' = queues
       /\ \A c \in DOMAIN conns :
             (conns'[c] # conns[c] /\ ~Parses(conns'[c].req)) =>
                /\ conns'[c].resp = InvalidJson
                /\ conns'[c].nproc = 0
                /\ queues' = queues]_vars

C15_Witness ==
    /\ http.ep = "POST /mcp-sse" /\ ~Parses(http.req)
    /\ http.status = 400 /\ http.nproc = 0
    /\ subs # {}
    /\ \A s \in subs : queues[s] = <<>>

\* a step in which POST /mcp-sse has computed its response, lines 206-219
Published ==
    /\ http' # http
    /\ http'.ep = "POST /mcp-sse"
    /\ http'.status = 200

\* C16: a published response is put, once, on the queue of every registered
\* subscriber; the queues of the others and the set of subscribers are left
\* as they were.
C16_FanOut ==
    [][Published =>
         /\ \A s \in subs : queues'[s] = Append(queues[s], [text |-> http'.body])
         /\ \A s \in DOMAIN queues \ subs : queues'[s] = queues[s]
         /\ subs' = subs]_vars

C16_Witness ==
    /\ Cardinality(subs) >= 2
    /\ http.ep = "POST /mcp-sse" /\ http.status = 200
    /\ \A s \in subs : queues[s] # <<>> /\ queues[s][Len(queues[s])].text = http.body

\* C17: what the subscribers do never reaches the publisher: the envelope
\* POST /mcp-sse returns is what the processor returns for the request,
\* whoever is registered, and the payload put on the queues is the
\* serialisation of that same envelope.
C17_PublisherUnaffected ==
    [][(/\ http' # http /\ http'.ep = "POST /mcp-sse"
        /\ IsObject(http'.req) /\ http'.status # 0) =>
         /\ http'.status = 200
         /\ \E h \in Hosts :
               LET out == _process_rpc_req(http'.req, TOOLS, h)
               IN  ~out.raised /\ http'.body = out.resp
         /\ \A s \in subs :
               /\ queues'[s] # <<>>
               /\ queues'[s][Len(queues'[s])].text = http'.body]_vars

C17_Witness ==
    /\ http.ep = "POST /mcp-sse" /\ http.status = 200 /\ http.req = ReqCall
    /\ "error" \in DOMAIN http.body
    /\ \E s \in subs :
          /\ clients[s].gone
          /\ queues[s] # <<>> /\ queues[s][Len(queues[s])].text = http.body

\* C18: every queue registered by a subscribe is eventually removed from the
\* subscriber set once its client has disconnected, on every exit path, also
\* when nothing is published after the disconnect.
C18_Cleanup ==
    \A s \in FanSubs : (clients[s].gone /\ s \in subs) ~> (s \notin subs)

\* what the processor returns for request r, over the outcomes of the host
ProcessorAnswers(r) ==
    { o.resp : o \in { q \in { _process_rpc_req(r, TOOLS, h) : h \in Hosts } : ~q.raised } }

\* C19: the three transports differ only in framing: for every request object
\* the envelope sent on the duplex transport, returned by POST /mcp-http and
\* returned and published by POST /mcp-sse is the envelope the processor
\* returns for that request.
C19_TransportsAgree ==
    /\ \A c \in DOMAIN conns :
         (DuplexAnswered(c) /\ IsObject(conns[c].req)) =>
             conns[c].resp \in ProcessorAnswers(conns[c].req)
    /\ (http.ep \in PostEndpoints /\ IsObject(http.req) /\ http.status # 0) =>
         /\ http.status = 200
         /\ http.body \in ProcessorAnswers(http.req)
    /\ LET answers == UNION { ProcessorAnswers(r) : r \in { p \in SsePayloads : IsObject(p) } }
       IN  \A s \in DOMAIN queues : \A i \in 1..Len(queues[s]) :
               queues[s][i].text \in answers

C19_Witness ==
    \E c \in DOMAIN conns :
        /\ DuplexAnswered(c) /\ conns[c].req = ReqUnknownTool
        /\ conns[c].resp = _process_rpc_req(ReqUnknownTool, TOOLS, "ok").resp
        /\ conns[c].resp.error.message = "unknown tool: bogus.tool"

\* C20: the exec tool stays disabled: "exec.run" is never a key of the
\* registry, a tools.call naming it gets the unknown-tool error and invokes
\* nothing, and exec_run itself raises for every params value.
NamesExec(r) ==
    /\ IsObject(r) /\ Get(r.method) = "tools.call" /\ r.params = "dict"
    /\ r.nameT = "str" /\ r.name = "exec.run"

C20_ExecDisabled ==
    /\ "exec.run" \notin SeqToSet(TOOLS)
    /\ \A av \in ArgValues :
         LET t == exec_run(EffArgs(Req("dict", None, "tools.call", "dict", NoName, av)))
         IN  t.raised /\ t.val = "exec.run is disabled"
    /\ (ProbeDone /\ NamesExec(probe.req)) =>
         /\ ~probe.out.raised
         /\ IsErrorWithAvailable(probe.out.resp, Get(probe.req.id))
         /\ probe.out.resp.error.message = "unknown tool: exec.run"
         /\ probe.out.calls = <<>>

C20_Witness ==
    /\ ProbeDone /\ NamesExec(probe.req) /\ probe.req.id = "1"
    /\ "error" \in DOMAIN probe.out.resp
    /\ "exec.run" \notin SeqToSet(probe.out.resp.error.available)

\* C21: proc.top honours its limit: for every integer n >= 0, top_procs(n)
\* called directly, and a tools.call for proc.top with arguments.limit = n,
\* return a list of at most n process records.
C21_LimitHonoured ==
    /\ \A n \in 0..MaxLimit :
         LET t == top_procs(n, "ok") IN ~t.raised /\ Records(t.val) <= n
    /\ (/\ ProbeDone /\ NamesRegistered(probe.req) /\ probe.req.name = "proc.top"
        /\ probe.req.args = "dict" /\ probe.req.argT = "int"
        /\ ~probe.out.raised /\ "result" \in DOMAIN probe.out.resp)
       => Records(probe.out.resp.result.data) <= probe.req.argN

\* names that are the same header when the case of the letters is ignored
FoldClasses == {{"Authorization", "authorization"}, {"X-Api-Key", "x-api-key"}, {"Accept"}}
SameHeader(a, b) == \E cl \in FoldClasses : a \in cl /\ b \in cl

\* the headers to redact: the configured ones, "authorization" when none is
Configured(cfg) ==
    IF ~cfg.given \/ cfg.names = {} THEN {"authorization"} ELSE cfg.names

C23_OnlyPublishWrites ==
    [][/\ (conns' # conns \/ (http' # http /\ http'.ep # "POST /mcp-sse")) =>
             UNCHANGED <<subs, queues>>
       /\ \A s \in DOMAIN queues :
             /\ (s \in subs' /\ s \notin subs) =>
                    /\ clients[s].st = "none"
                    /\ clients'[s].st = "registered"
                    /\ queues' = [queues EXCEPT ![s] = <<>>]
             /\ Len(queues'[s]) > Len(queues[s]) =>
                    /\ s \in subs
                    /\ http'.ep = "POST /mcp-sse"
                    /\ http'.status = 200]_vars

C23_Witness ==
    /\ http.ep = "POST /mcp-http" /\ http.status = 200 /\ http.req = ReqCall
    /\ \E s \in subs : queues[s] # <<>> /\ clients[s].st = "waiting"

\* the texts held in a queue, oldest first
Texts(q) == [i \in 1..Len(q) |-> q[i].text]
IsPrefix(a, b) == Len(a) <= Len(b) /\ a = SubSeq(b, 1, Len(a))

\* C24: for each subscriber, under any interleaving of subscribes, publishes
\* and disconnects, what has left its queue followed by what its queue holds
\* is exactly the sequence of responses published since its registration,
\* each once and in the order of the publishes; nothing published before the
\* registration or after the deregistration is ever on its queue.
C24_ExactlyOnceInOrder ==
    \A s \in DOMAIN queues :
        /\ s \notin DOMAIN hist.reg => (s \notin subs /\ queues[s] = <<>>)
        /\ (s \in DOMAIN hist.reg /\ s \in subs) =>
              hist.left[s] \o Texts(queues[s]) =
                  SubSeq(hist.pubs, hist.reg[s] + 1, Len(hist.pubs))
        /\ (s \in DOMAIN hist.reg /\ s \notin subs) =>
              /\ s \in DOMAIN hist.dereg
              /\ queues[s] = <<>>
              /\ IsPrefix(hist.left[s],
                          SubSeq(hist.pubs, hist.reg[s] + 1, hist.dereg[s]))

C24_Witness ==
    \E s \in subs, t \in DOMAIN hist.dereg :
        /\ Len(hist.pubs) = 2 /\ hist.pubs[1] # hist.pubs[2]
        /\ hist.reg[t] = 0 /\ hist.left[t] = hist.pubs
        /\ hist.reg[s] = 1 /\ hist.left[s] = <<hist.pubs[2]>>

====
